---------------------------- MODULE Spec2Model ----------------------------
(***************************************************************************)
(* CedraSolver (src/cedra_biquadratic.py): the biquadratic solver          *)
(* a*x^4 + b*x^2 + c = 0 with its two counters.                            *)
(*                                                                         *)
(* Python floats are modelled as a decimal floating-point format of radix  *)
(* 10^4 with Limbs limbs of mantissa (at least 4*Limbs-3 significant       *)
(* decimal digits; binary64 has 15.95), round-to-nearest-even, the         *)
(* binary64 range (overflow to inf above 1.797e308, flush to zero below    *)
(* 1e-324), inf and nan as in IEEE-754, and the exceptions CPython raises  *)
(* (ValueError from math.sqrt / math.pow, ZeroDivisionError from /).       *)
(* Signed zero is not modelled: the code only compares and negates zeros.  *)
(* A value computed once in the code is an operator parameter here.        *)
(***************************************************************************)
EXTENDS Integers, Sequences, FiniteSets, TLC

\* Bounds of the model.
Limbs == 5
MaxCalls == 2

---------------------------------------------------------------------------
\* Unbounded naturals as big-endian sequences of limbs in 0..Radix-1.

Radix == 10^4

Zeros(n) == [i \in 1..n |-> 0]

RECURSIVE Strip(_)
Strip(m) == IF Len(m) > 0 /\ m[1] = 0 THEN Strip(Tail(m)) ELSE m

PadLeft(m, n) == IF Len(m) >= n THEN m ELSE Zeros(n - Len(m)) \o m

PadRight(m, n) == IF Len(m) >= n THEN m ELSE m \o Zeros(n - Len(m))

MaxOf(i, j) == IF i >= j THEN i ELSE j

MinOf(i, j) == IF i <= j THEN i ELSE j

RECURSIVE LexCmp(_, _, _)
LexCmp(x, y, i) ==
  IF i > Len(x) THEN 0
  ELSE IF x[i] < y[i] THEN -1
  ELSE IF x[i] > y[i] THEN 1
  ELSE LexCmp(x, y, i + 1)

BCmp(x, y) ==
  LexCmp(PadLeft(x, MaxOf(Len(x), Len(y))), PadLeft(y, MaxOf(Len(x), Len(y))), 1)

RECURSIVE AddC(_, _, _, _)
AddC(x, y, i, carry) ==
  IF i = 0 THEN (IF carry = 0 THEN <<>> ELSE <<carry>>)
  ELSE Append(AddC(x, y, i - 1, (x[i] + y[i] + carry) \div Radix),
              (x[i] + y[i] + carry) % Radix)

BAdd(x, y) ==
  AddC(PadLeft(x, MaxOf(Len(x), Len(y))), PadLeft(y, MaxOf(Len(x), Len(y))),
       MaxOf(Len(x), Len(y)), 0)

RECURSIVE SubC(_, _, _, _)
SubC(x, y, i, borrow) ==
  IF i = 0 THEN <<>>
  ELSE Append(SubC(x, y, i - 1, IF x[i] - y[i] - borrow < 0 THEN 1 ELSE 0),
              (x[i] - y[i] - borrow) % Radix)

\* x - y for x >= y
BSub(x, y) ==
  SubC(PadLeft(x, MaxOf(Len(x), Len(y))), PadLeft(y, MaxOf(Len(x), Len(y))),
       MaxOf(Len(x), Len(y)), 0)

RECURSIVE MulC(_, _, _, _)
MulC(x, k, i, carry) ==
  IF i = 0 THEN (IF carry = 0 THEN <<>> ELSE <<carry>>)
  ELSE Append(MulC(x, k, i - 1, (x[i] * k + carry) \div Radix),
              (x[i] * k + carry) % Radix)

MulSmall(x, k) == MulC(x, k, Len(x), 0)

RECURSIVE MulAcc(_, _, _)
MulAcc(x, y, j) ==
  IF j = 0 THEN <<>>
  ELSE BAdd(Append(MulAcc(x, y, j - 1), 0), MulSmall(x, y[j]))

BMul(x, y) == MulAcc(x, y, Len(y))

\* The largest q in lo..hi with q*d <= r (bisection; lo*d <= r is given).
RECURSIVE QuotLimb(_, _, _, _)
QuotLimb(r, d, lo, hi) ==
  IF lo = hi THEN lo
  ELSE IF BCmp(MulSmall(d, (lo + hi + 1) \div 2), r) <= 0
  THEN QuotLimb(r, d, (lo + hi + 1) \div 2, hi)
  ELSE QuotLimb(r, d, lo, (lo + hi + 1) \div 2 - 1)

\* The quotient limb the leading limbs of r and d suggest; it is never too
\* small, and at most 2 too large when d[1] >= Radix \div 2.
QuotEstimate(r, d) ==
  MinOf(Radix - 1,
        (IF Len(r) < Len(d) THEN 0
         ELSE IF Len(r) = Len(d) THEN r[1]
         ELSE r[1] * Radix + r[2]) \div d[1])

QuotFrom(r, d, lo, hi) ==
  IF BCmp(MulSmall(d, lo), r) <= 0 THEN QuotLimb(r, d, lo, hi)
  ELSE QuotLimb(r, d, 0, lo - 1)

\* One step of long division: the quotient limb of r by d.
NextQuotLimb(r, d) ==
  QuotFrom(r, d, MaxOf(0, QuotEstimate(r, d) - 2), QuotEstimate(r, d))

\* Long division of n by d from limb i on, q and r being the quotient and the
\* rest of n[1..i-1]: [q |-> quotient limbs, r |-> rest].
RECURSIVE DivLoop(_, _, _, _, _)
DivTake(n, d, i, q, rem, ql) ==
  DivLoop(n, d, i + 1, Append(q, ql), Strip(BSub(rem, MulSmall(d, ql))))

DivBring(n, d, i, q, rem) == DivTake(n, d, i, q, rem, NextQuotLimb(rem, d))

DivLoop(n, d, i, q, r) ==
  IF i > Len(n) THEN [q |-> q, r |-> r]
  ELSE DivBring(n, d, i, q, Strip(Append(r, n[i])))

DivResult(dm) == [q |-> Tail(dm.q), exact |-> dm.r = <<>>]

DivScaled(n, d, f) ==
  DivResult(DivLoop(PadLeft(MulSmall(n, f), Len(n) + 1), MulSmall(d, f), 1, <<>>, <<>>))

\* n \div d as Len(n) limbs, and whether the division is exact; n and d are
\* first scaled so that the divisor's leading limb is at least Radix \div 2.
BDivMod(n, d) == DivScaled(n, d, Radix \div (d[1] + 1))

\* The largest q in lo..hi with (r2*Radix + q) * q <= rem.
RECURSIVE RootLimb(_, _, _, _)
RootLimb(r2, rem, lo, hi) ==
  IF lo = hi THEN lo
  ELSE IF BCmp(MulSmall(Append(r2, (lo + hi + 1) \div 2), (lo + hi + 1) \div 2), rem) <= 0
  THEN RootLimb(r2, rem, (lo + hi + 1) \div 2, hi)
  ELSE RootLimb(r2, rem, lo, (lo + hi + 1) \div 2 - 1)

\* The square root of n from limb pair i on, root and rest being
\* floor(sqrt(n[1..2i-2])) and what is left of n[1..2i-2].
RECURSIVE RootLoop(_, _, _, _)
RootTake(n, i, root, r2, rem, q) ==
  RootLoop(n, i + 1, Append(root, q), Strip(BSub(rem, MulSmall(Append(r2, q), q))))

RootBring(n, i, root, r2, rem) ==
  RootTake(n, i, root, r2, rem, RootLimb(r2, rem, 0, Radix - 1))

RootLoop(n, i, root, rest) ==
  IF 2 * i > Len(n) THEN [root |-> root, exact |-> rest = <<>>]
  ELSE RootBring(n, i, root, MulSmall(root, 2),
                 Strip(rest \o <<n[2 * i - 1], n[2 * i]>>))

\* floor(sqrt(n)) and whether n is a square; Len(n) is even.
BSqrt(n) == RootLoop(n, 1, <<>>, <<>>)

---------------------------------------------------------------------------
\* Floats.  A finite float is s * (m[1] + m[2]/Radix + ...) * Radix^x with
\* m[1] # 0, or zero (m all 0, s = 1, x = 0).  k is "fin", "inf", "nan", or
\* the name of the exception the operation that should have produced the
\* value raised.

Zero == [k |-> "fin", s |-> 1, m |-> Zeros(Limbs), x |-> 0]

Inf(s) == [k |-> "inf", s |-> s, m |-> Zeros(Limbs), x |-> 0]

NaN == [k |-> "nan", s |-> 1, m |-> Zeros(Limbs), x |-> 0]

Exc(name) == [k |-> name, s |-> 1, m |-> Zeros(Limbs), x |-> 0]

\* A decimal literal: s * (limbs[1] + limbs[2]/Radix + ...) * Radix^x.
Lit(s, limbs, x) == [k |-> "fin", s |-> s, m |-> PadRight(limbs, Limbs), x |-> x]

\* sys.float_info.max = 1.7976931348623157e308
MaxMant == PadRight(<<1, 7976, 9313, 4862, 3157>>, Limbs)

IsExc(f) == f.k \notin {"fin", "inf", "nan"}

IsZero(f) == f.k = "fin" /\ f.m[1] = 0

\* The float s * m * Radix^x unless it is out of range.
InRange(s, m, x) ==
  IF x > 77 \/ (x = 77 /\ LexCmp(m, MaxMant, 1) > 0) THEN Inf(s)
  ELSE IF x < -81 THEN Zero
  ELSE [k |-> "fin", s |-> s, m |-> m, x |-> x]

\* r is the rounded mantissa: Limbs limbs, or one more after a carry.
Rounded(s, r, x) ==
  InRange(s, SubSeq(r, 1, Limbs), IF Len(r) > Limbs THEN x + 1 ELSE x)

\* Ties go to the even mantissa.
RoundUp(head, tail) ==
  /\ tail # <<>>
  /\ \/ LexCmp(tail, <<Radix \div 2>> \o Zeros(Len(tail) - 1), 1) > 0
     \/ /\ LexCmp(tail, <<Radix \div 2>> \o Zeros(Len(tail) - 1), 1) = 0
        /\ head[Limbs] % 2 = 1

RoundSplit(s, head, tail, x) ==
  Rounded(s, IF RoundUp(head, tail) THEN BAdd(head, <<1>>) ELSE head, x)

RoundLimbs(s, st, x) ==
  IF st = <<>> THEN Zero
  ELSE RoundSplit(s, SubSeq(PadRight(st, Limbs), 1, Limbs),
                  IF Len(st) > Limbs THEN SubSeq(st, Limbs + 1, Len(st)) ELSE <<>>, x)

\* The float nearest to s * limbs * Radix^(x - Len(limbs) + 1), ties to even.
MkFloat(s, limbs, x) == RoundLimbs(s, Strip(limbs), x - (Len(limbs) - Len(Strip(limbs))))

Sgn(f) == IF IsZero(f) \/ f.k = "nan" THEN 0 ELSE f.s

\* Comparison of the magnitudes of two nonzero ordered floats.
AbsCmp(f, g) ==
  IF f.k = "inf" THEN (IF g.k = "inf" THEN 0 ELSE 1)
  ELSE IF g.k = "inf" THEN -1
  ELSE IF f.x # g.x THEN (IF f.x < g.x THEN -1 ELSE 1)
  ELSE LexCmp(f.m, g.m, 1)

FCmp(f, g) ==
  IF Sgn(f) # Sgn(g) THEN (IF Sgn(f) < Sgn(g) THEN -1 ELSE 1)
  ELSE IF Sgn(f) = 0 THEN 0
  ELSE Sgn(f) * AbsCmp(f, g)

\* Every comparison with nan is false.
Ordered(f, g) == f.k \in {"fin", "inf"} /\ g.k \in {"fin", "inf"}

FLt(f, g) == Ordered(f, g) /\ FCmp(f, g) < 0

FLe(f, g) == Ordered(f, g) /\ FCmp(f, g) <= 0

FGt(f, g) == Ordered(f, g) /\ FCmp(f, g) > 0

FGe(f, g) == Ordered(f, g) /\ FCmp(f, g) >= 0

FNeg(f) == IF f.k \in {"fin", "inf"} /\ ~IsZero(f) THEN [f EXCEPT !.s = -f.s] ELSE f

FAbs(f) == IF f.k \in {"fin", "inf"} THEN [f EXCEPT !.s = 1] ELSE f

isfinite(f) == f.k = "fin"

\* hi + lo for finite nonzero hi, lo with mantissas mh, ml on one scale
\* (Len(mh) = Len(ml), the leading limb of mh of weight Radix^hi.x).
AddSum(s, sum, x, n) == MkFloat(s, sum, x + (Len(sum) - n))

AddMant(hi, lo, mh, ml) ==
  IF hi.s = lo.s THEN AddSum(hi.s, BAdd(mh, ml), hi.x, Len(mh))
  ELSE IF BCmp(mh, ml) = 0 THEN Zero
  ELSE IF BCmp(mh, ml) > 0 THEN MkFloat(hi.s, BSub(mh, ml), hi.x)
  ELSE MkFloat(lo.s, BSub(ml, mh), hi.x)

\* hi + lo for finite nonzero hi, lo with hi.x >= lo.x
AddAligned(hi, lo) ==
  IF hi.x - lo.x > Limbs + 1 THEN hi
  ELSE AddMant(hi, lo, hi.m \o Zeros(hi.x - lo.x), PadLeft(lo.m, Limbs + hi.x - lo.x))

\* f + g
FAdd(f, g) ==
  IF IsExc(f) THEN f ELSE IF IsExc(g) THEN g
  ELSE IF f.k = "nan" \/ g.k = "nan" THEN NaN
  ELSE IF f.k = "inf" THEN (IF g.k = "inf" /\ g.s # f.s THEN NaN ELSE f)
  ELSE IF g.k = "inf" THEN g
  ELSE IF IsZero(f) THEN g
  ELSE IF IsZero(g) THEN f
  ELSE IF f.x >= g.x THEN AddAligned(f, g)
  ELSE AddAligned(g, f)

\* f - g
FSub(f, g) == FAdd(f, FNeg(g))

\* f * g
FMul(f, g) ==
  IF IsExc(f) THEN f ELSE IF IsExc(g) THEN g
  ELSE IF f.k = "nan" \/ g.k = "nan" THEN NaN
  ELSE IF f.k = "inf" \/ g.k = "inf"
       THEN (IF IsZero(f) \/ IsZero(g) THEN NaN ELSE Inf(f.s * g.s))
  ELSE IF IsZero(f) \/ IsZero(g) THEN Zero
  ELSE MkFloat(f.s * g.s, PadLeft(BMul(f.m, g.m), 2 * Limbs), f.x + g.x + 1)

DivQuot(s, dm, x) == MkFloat(s, Append(dm.q, IF dm.exact THEN 0 ELSE 1), x)

\* f / g; Python raises ZeroDivisionError for a zero divisor
FDiv(f, g) ==
  IF IsExc(f) THEN f ELSE IF IsExc(g) THEN g
  ELSE IF IsZero(g) THEN Exc("ZeroDivisionError")
  ELSE IF f.k = "nan" \/ g.k = "nan" THEN NaN
  ELSE IF f.k = "inf" THEN (IF g.k = "inf" THEN NaN ELSE Inf(f.s * g.s))
  ELSE IF g.k = "inf" \/ IsZero(f) THEN Zero
  ELSE DivQuot(f.s * g.s, BDivMod(f.m \o Zeros(Limbs + 1), g.m), Limbs - 1 + f.x - g.x)

SqrtRoot(rt, e) == MkFloat(1, Append(rt.root, IF rt.exact THEN 0 ELSE 1), Len(rt.root) - 1 + e)

\* The root of n * Radix^(2*e), n padded to an even number of limbs.
SqrtEven(n, e) == SqrtRoot(BSqrt(IF Len(n) % 2 = 0 THEN n ELSE <<0>> \o n), e)

\* The root of m * Radix^t, through m * Radix^j * Radix^(t-j) with t-j even.
SqrtShift(m, t, j) == SqrtEven(m \o Zeros(j), (t - j) \div 2)

\* math.sqrt(f); raises ValueError for a negative argument
FSqrt(f) ==
  IF IsExc(f) \/ f.k = "nan" \/ IsZero(f) THEN f
  ELSE IF f.s < 0 THEN Exc("ValueError")
  ELSE IF f.k = "inf" THEN f
  ELSE SqrtShift(f.m, f.x - Limbs + 1,
                 IF (f.x - Limbs + 1 - (Limbs + 2)) % 2 = 0 THEN Limbs + 2 ELSE Limbs + 3)

\* math.pow(f, 0.25); raises ValueError for a negative finite argument
FPow025(f) ==
  IF IsExc(f) \/ f.k = "nan" \/ IsZero(f) THEN f
  ELSE IF f.k = "inf" THEN Inf(1)
  ELSE IF f.s < 0 THEN Exc("ValueError")
  ELSE FSqrt(FSqrt(f))

---------------------------------------------------------------------------
\* CedraSolver

eps == Lit(1, <<10>>, -4)          \* 1e-15

tolerance == Lit(1, <<100>>, -4)   \* 1e-14

MinA == Lit(1, <<1>>, -4)          \* 1e-16

One == Lit(1, <<1>>, 0)

Two == Lit(1, <<2>>, 0)

Four == Lit(1, <<4>>, 0)

\* What a method call produces: a returned list, a returned None, or an
\* exception that leaves the call.
Ret(list) == [kind |-> "list", val |-> list, exc |-> ""]

RetNone == [kind |-> "None", val |-> <<>>, exc |-> ""]

Raise(name) == [kind |-> "raise", val |-> <<>>, exc |-> name]

\* sorted(list): stable, by < alone
RECURSIVE InsertSorted(_, _)
InsertSorted(list, v) ==
  IF list = <<>> THEN <<v>>
  ELSE IF FLt(v, Head(list)) THEN <<v>> \o list
  ELSE <<Head(list)>> \o InsertSorted(Tail(list), v)

\* A solver that forgets to sort.
unsorted(list) == list

RECURSIVE sorted(_)
sorted(list) ==
  IF list = <<>> THEN <<>>
  ELSE InsertSorted(sorted(SubSeq(list, 1, Len(list) - 1)), list[Len(list)])

\* max(x, y, z) of Python: the first of the largest, by > alone
PyMax2(x, y) == IF FGt(y, x) THEN y ELSE x

PyMax(x, y, z) == PyMax2(PyMax2(x, y), z)

\* return sorted(roots), once math.sqrt / math.pow has produced v
ReturnSorted(v, roots) == IF IsExc(v) THEN Raise(v.k) ELSE Ret(sorted(roots))

\* Case 1, b not near 0, with q = -b/a
special_c_zero(q) ==
  IF IsExc(q) THEN Raise(q.k)
  ELSE IF FGt(q, eps) THEN ReturnSorted(FSqrt(q), <<FNeg(FSqrt(q)), Zero, FSqrt(q)>>)
  ELSE Ret(<<Zero>>)

\* Case 2's test for the root 0.
ratio_is_zero(ratio) == FLt(FAbs(ratio), eps)

\* Case 2, with ratio = -c/a
special_b_zero(ratio) ==
  IF IsExc(ratio) THEN Raise(ratio.k)
  ELSE IF FLt(ratio, FNeg(eps)) THEN Ret(<<>>)
  ELSE IF ratio_is_zero(ratio) THEN Ret(<<Zero>>)
  ELSE ReturnSorted(FPow025(ratio), <<FNeg(FPow025(ratio)), FPow025(ratio)>>)

\* Case 3, with x_squared = -b/(2*a)
special_square(x_squared) ==
  IF IsExc(x_squared) THEN Raise(x_squared.k)
  ELSE IF FGt(x_squared, eps)
  THEN ReturnSorted(FSqrt(x_squared), <<FNeg(FSqrt(x_squared)), FSqrt(x_squared)>>)
  ELSE IF FLe(FAbs(x_squared), eps) THEN Ret(<<Zero>>)
  ELSE Ret(<<>>)

\* b*b - 4*a*c
Discriminant(a, b, c) == FSub(FMul(b, b), FMul(FMul(Four, a), c))

\* Case 3's test on the discriminant
near_zero_discriminant(a, b, c, discriminant) ==
  FLt(FAbs(discriminant),
      FMul(eps, PyMax(FMul(b, b), FAbs(FMul(FMul(Four, a), c)), One)))

\* The guard that decides whether the special-case counter is incremented.
special_guard(a) == ~FLt(FAbs(a), eps)

\* _detect_special_cases(a, b, c), without its counter increment
detect_special_cases(a, b, c) ==
  IF ~special_guard(a) THEN RetNone
  ELSE IF FLt(FAbs(c), eps)
  THEN (IF FLt(FAbs(b), eps) THEN Ret(<<Zero>>) ELSE special_c_zero(FDiv(FNeg(b), a)))
  ELSE IF FLt(FAbs(b), eps) THEN special_b_zero(FDiv(FNeg(c), a))
  ELSE IF near_zero_discriminant(a, b, c, Discriminant(a, b, c))
  THEN special_square(FDiv(FNeg(b), FMul(Two, a)))
  ELSE RetNone

\* The x candidates one root y of the substituted quadratic contributes.
Candidates(y) ==
  IF FGt(y, tolerance) THEN <<FSqrt(y), FNeg(FSqrt(y))>>
  ELSE IF FLe(FAbs(y), tolerance) THEN <<Zero>>
  ELSE <<>>

\* any(abs(sol - existing) < tolerance for existing in unique_solutions)
AnyNear(sol, unique_solutions) ==
  \E i \in 1..Len(unique_solutions) :
    FLt(FAbs(FSub(sol, unique_solutions[i])), tolerance)

\* The "Remove duplicates" loop from element i of the sorted list on.
RECURSIVE Dedup(_, _, _)
Dedup(list, i, unique_solutions) ==
  IF i > Len(list) THEN unique_solutions
  ELSE Dedup(list, i + 1,
             IF ~AnyNear(list[i], unique_solutions)
             THEN Append(unique_solutions, list[i])
             ELSE unique_solutions)

\* y2 of the Citardauq form, given the denominator -b -+ sqrt(D)
CitardauqY2(c, den, sqrt_discriminant) ==
  IF FGt(sqrt_discriminant, eps) THEN FDiv(FMul(Two, c), den) ELSE Zero

\* "Convert y solutions back to x solutions" and "Remove duplicates"
general_roots(sqrt_discriminant, y1, y2) ==
  IF IsExc(sqrt_discriminant) THEN Raise(sqrt_discriminant.k)
  ELSE IF IsExc(y1) THEN Raise(y1.k)
  ELSE IF IsExc(y2) THEN Raise(y2.k)
  ELSE Ret(Dedup(sorted(Candidates(y1) \o Candidates(y2)), 1, <<>>))

\* The two roots, den being -b - sqrt(D) or -b + sqrt(D)
general_citardauq(a, c, sqrt_discriminant, den) ==
  general_roots(sqrt_discriminant, FDiv(den, FMul(Two, a)),
                CitardauqY2(c, den, sqrt_discriminant))

general_sqrt(a, b, c, sqrt_discriminant) ==
  general_citardauq(a, c, sqrt_discriminant,
                    IF FGe(b, Zero) THEN FSub(FNeg(b), sqrt_discriminant)
                    ELSE FAdd(FNeg(b), sqrt_discriminant))

general_discriminant(a, b, c, discriminant) ==
  IF FLt(discriminant, Zero) THEN Ret(<<>>)
  ELSE general_sqrt(a, b, c, FSqrt(discriminant))

\* _solve_general_case(a, b, c)
solve_general_case(a, b, c) == general_discriminant(a, b, c, Discriminant(a, b, c))

\* A validation that forgets the finiteness test.
Valid_without_isfinite(a, b, c) == ~FLt(FAbs(a), MinA)

\* The "Input validation" of solve.
Valid(a, b, c) == isfinite(a) /\ isfinite(b) /\ isfinite(c) /\ ~FLt(FAbs(a), MinA)

solve_special(a, b, c, special_result) ==
  IF special_result.kind # "None" THEN special_result ELSE solve_general_case(a, b, c)

\* solve(a, b, c): what the call produces, and whether the special-case
\* counter was incremented on the way.
solve_outcome(a, b, c) ==
  IF ~Valid(a, b, c) THEN [out |-> Ret(<<>>), counted |-> FALSE]
  ELSE [out |-> solve_special(a, b, c, detect_special_cases(a, b, c)),
        counted |-> special_guard(a)]

\* float(n) for a counter value 0 <= n < Radix
FromCount(n) == IF n = 0 THEN Zero ELSE Lit(1, <<n>>, 0)

\* A rate that divides by the bare total.
special_case_rate_without_max(special, total) ==
  FMul(FDiv(FromCount(special), FromCount(total)), Lit(1, <<100>>, 0))

\* get_stats()['special_case_rate']
special_case_rate(special, total) ==
  FMul(FDiv(FromCount(special), FromCount(MaxOf(1, total))), Lit(1, <<100>>, 0))

---------------------------------------------------------------------------
\* The coefficients the callers supply.

CoefA ==
  { Lit(1, <<1>>, 0), Lit(1, <<2>>, 0),
    Lit(1, <<1>>, 5),              \* 1e20
    Lit(1, <<5>>, -4),             \* 5e-16
    Lit(1, <<5000>>, -5),          \* 5e-17
    Lit(-1, <<1>>, -4),            \* -1e-16
    Lit(1, <<1>>, 50),             \* 1e200
    Zero, NaN, Inf(1) }

CoefB ==
  { Zero, Lit(1, <<1>>, 0), Lit(1, <<2>>, 0), Lit(-1, <<2>>, 0),
    Lit(-1, <<5>>, 0), Lit(-1, <<8>>, 0),
    Lit(-1, <<400, 0, 2000>>, 1),  \* -4000000.2
    Lit(-1, <<40>>, -4),           \* -4e-15
    Lit(-1, <<100>>, 2),           \* -1e10
    Lit(1, <<1>>, 50),             \* 1e200
    Inf(-1) }

CoefC ==
  { Zero, Lit(1, <<1>>, 0), Lit(-1, <<1>>, 0), Lit(1, <<4>>, 0),
    Lit(1, <<6>>, 0),
    Lit(1, <<10>>, -4),            \* 1e-15
    Lit(-1, <<10>>, -4),           \* -1e-15
    Lit(1, <<4, 0, 40>>, -2),      \* 4.0000004e-08
    Lit(1, <<80>>, -4),            \* 8e-15
    Lit(1, <<5000>>, -2),          \* 5e-05
    Lit(1, <<1>>, 50),             \* 1e200
    NaN }

Inputs == CoefA \X CoefB \X CoefC

\* The coefficients of the callers that make several calls on one solver.
SeqInputs ==
  { Lit(1, <<1>>, 0), Lit(1, <<5>>, -4), Lit(1, <<5000>>, -5), NaN }
    \X { Zero, Lit(-1, <<2>>, 0), Lit(-1, <<5>>, 0), Inf(-1) }
    \X { Zero, Lit(1, <<4>>, 0) }

---------------------------------------------------------------------------
\* The solver object and the calls made on it.

VARIABLES
  solutions_count,      \* self.solutions_count
  special_cases_count,  \* self.special_cases_count
  call,                 \* the last call made: "new", "solve" or "get_stats"
                        \* ("pending": a solve about to be made with args)
  args,                 \* its arguments
  returned,             \* what it produced
  validated_count       \* history: the solve calls that passed validation

vars == <<solutions_count, special_cases_count, call, args, returned, validated_count>>

\* CedraSolver()
Init ==
  /\ solutions_count = 0
  /\ special_cases_count = 0
  /\ call = "new"
  /\ args = <<>>
  /\ returned = RetNone
  /\ validated_count = 0

\* The effect of a solve(a, b, c) whose outcome is r.
solve_effect(a, b, c, r) ==
  /\ solutions_count' = solutions_count + 1
  /\ special_cases_count' =
       IF r.counted THEN special_cases_count + 1 ELSE special_cases_count
  /\ returned' = r.out
  /\ call' = "solve"
  /\ args' = <<a, b, c>>
  /\ validated_count' = IF Valid(a, b, c) THEN validated_count + 1 ELSE validated_count

\* solver.solve(a, b, c)
solve(a, b, c) ==
  /\ solutions_count < MaxCalls
  /\ solve_effect(a, b, c, solve_outcome(a, b, c))

\* solver.get_stats()
get_stats ==
  /\ call' = "get_stats"
  /\ args' = <<>>
  /\ returned' = [kind |-> "dict",
                  total_solutions |-> solutions_count,
                  special_cases |-> special_cases_count,
                  special_case_rate |->
                    special_case_rate(special_cases_count, solutions_count)]
  /\ UNCHANGED <<solutions_count, special_cases_count, validated_count>>

Next ==
  \/ \E t \in SeqInputs : solve(t[1], t[2], t[3])
  \/ get_stats

\* Any sequence of calls on one solver.
Spec == Init /\ [][Next]_vars

\* A fresh solver and a caller about to make one solve call.
SolveInit ==
  /\ solutions_count = 0
  /\ special_cases_count = 0
  /\ call = "pending"
  /\ args \in Inputs
  /\ returned = RetNone
  /\ validated_count = 0

SolvePending == call = "pending" /\ solve(args[1], args[2], args[3])

SolveNext ==
  \/ SolvePending
  \/ get_stats

\* One solve call on a fresh solver, for every input.
SolveSpec == SolveInit /\ [][SolveNext]_vars

---------------------------------------------------------------------------
\* The vocabulary of the claims.

\* x is "approximately 0": within 1e-15
NearZero(x) == FLt(FAbs(x), Lit(1, <<10>>, -4))

NonFinite(x) == x.k \in {"nan", "inf"}

\* The input is rejected: a non-finite coefficient, or |a| < 1e-16
InvalidInput(t) ==
  NonFinite(t[1]) \/ NonFinite(t[2]) \/ NonFinite(t[3]) \/ FLt(FAbs(t[1]), Lit(1, <<1>>, -4))

\* |a*x^4 + b*x^2 + c|
Residual(t, x) ==
  FAbs(FAdd(FAdd(FMul(t[1], FMul(FMul(x, x), FMul(x, x))), FMul(t[2], FMul(x, x))), t[3]))

Solved == call = "solve" /\ returned.kind = "list"

\* C1: solve never raises: every call returns a sequence.
C1_NeverRaises == call = "solve" => returned.kind = "list"

\* C2: symmetry: with every returned x # 0, -x is returned too.
C2_Symmetry ==
  Solved =>
    \A i \in 1..Len(returned.val) :
      ~IsZero(returned.val[i]) =>
        \E j \in 1..Len(returned.val) : returned.val[j] = FNeg(returned.val[i])

\* C3: the returned sequence has at most 4 elements, is strictly ascending,
\* and consecutive elements differ by at least 1e-14.
C3_Ascending ==
  Solved =>
    /\ Len(returned.val) <= 4
    /\ \A i \in 1..(Len(returned.val) - 1) :
         /\ FLt(returned.val[i], returned.val[i + 1])
         /\ FGe(FSub(returned.val[i + 1], returned.val[i]), Lit(1, <<100>>, -4))

\* C3's case: the general method returned four roots.
C3_Witness ==
  /\ Solved
  /\ Len(returned.val) = 4
  /\ detect_special_cases(args[1], args[2], args[3]).kind = "None"

\* C4: for finite input with |a| >= 1e-16, every returned x has
\* |a*x^4 + b*x^2 + c| < 1e-6.
C4_Residual ==
  Solved /\ ~InvalidInput(args) =>
    \A i \in 1..Len(returned.val) : FLt(Residual(args, returned.val[i]), Lit(1, <<100>>, -2))

\* C5: a solve call with a non-finite coefficient or |a| < 1e-16 returns the
\* empty sequence, increments solutions_count by one and leaves
\* special_cases_count unchanged.
C5_InvalidInput ==
  [][ call' = "solve" /\ InvalidInput(args') =>
        /\ returned' = Ret(<<>>)
        /\ solutions_count' = solutions_count + 1
        /\ special_cases_count' = special_cases_count ]_vars

\* C5's case: an invalid call made on a solver that has already counted a
\* special case.
C5_Witness ==
  /\ call = "solve"
  /\ InvalidInput(args)
  /\ solutions_count = 2
  /\ special_cases_count = 1

\* C6: special_cases_count equals the number of solve calls that passed
\* validation.
C6_CountsValidated == special_cases_count = validated_count

\* The repeated root y = -b/(2a) of C7, turned into x roots.
C7_Expected(y) ==
  IF FGt(y, eps) THEN Ret(<<FNeg(FSqrt(y)), FSqrt(y)>>)
  ELSE IF FLe(FAbs(y), eps) THEN Ret(<<Zero>>)
  ELSE Ret(<<>>)

\* C7: for valid input with b, c not near 0 and a discriminant near 0, solve
\* returns the roots of the repeated root y = -b/(2a) alone.
C7_RepeatedRoot ==
  /\ call = "solve"
  /\ ~InvalidInput(args)
  /\ ~NearZero(args[3])
  /\ ~NearZero(args[2])
  /\ near_zero_discriminant(args[1], args[2], args[3],
                            Discriminant(args[1], args[2], args[3]))
  => returned = C7_Expected(FDiv(FNeg(args[2]), FMul(Two, args[1])))

\* What C8 says solve returns for ratio = -c/a.
C8_Expected(ratio) ==
  IF FLt(ratio, FNeg(eps)) THEN Ret(<<>>)
  ELSE IF FLe(FAbs(ratio), eps) THEN Ret(<<Zero>>)
  ELSE Ret(<<FNeg(FPow025(ratio)), FPow025(ratio)>>)

\* C8: for valid input with b near 0 and c not near 0, solve returns [] when
\* ratio < -1e-15, [0] when |ratio| <= 1e-15, and the two fourth roots of
\* ratio otherwise.
C8_BNearZero ==
  /\ call = "solve"
  /\ ~InvalidInput(args)
  /\ NearZero(args[2])
  /\ ~NearZero(args[3])
  => returned = C8_Expected(FDiv(FNeg(args[3]), args[1]))

\* The x roots of one root y of the substituted quadratic, by C9.
C9_Roots(y) ==
  IF FGt(y, tolerance) THEN <<FNeg(FSqrt(y)), FSqrt(y)>> ELSE <<>>

\* What C9 says solve returns for the roots y1, y2.
C9_Expected(y1, y2) ==
  Ret(sorted(C9_Roots(y1) \o C9_Roots(y2) \o
             (IF FLe(FAbs(y1), tolerance) \/ FLe(FAbs(y2), tolerance)
              THEN <<Zero>> ELSE <<>>)))

\* The roots of a*y^2 + b*y + c = 0 for D > 0, den being -b -+ sqrt(D).
C9_FromDen(a, c, den) == C9_Expected(FDiv(den, FMul(Two, a)), FDiv(FMul(Two, c), den))

C9_FromSqrt(a, b, c, sq) ==
  C9_FromDen(a, c, IF FGe(b, Zero) THEN FSub(FNeg(b), sq) ELSE FAdd(FNeg(b), sq))

\* C9: for valid input that matches no special pattern and has D > 0, solve
\* returns exactly +-sqrt(y) for each root y > 1e-14 and a single 0 iff some
\* root has |y| <= 1e-14.
C9_General ==
  /\ call = "solve"
  /\ ~InvalidInput(args)
  /\ ~NearZero(args[3])
  /\ ~NearZero(args[2])
  /\ ~near_zero_discriminant(args[1], args[2], args[3],
                             Discriminant(args[1], args[2], args[3]))
  /\ FGt(Discriminant(args[1], args[2], args[3]), Zero)
  => returned = C9_FromSqrt(args[1], args[2], args[3],
                            FSqrt(Discriminant(args[1], args[2], args[3])))

C10_Inv ==
  /\ 0 <= special_cases_count
  /\ special_cases_count <= solutions_count
  /\ call = "get_stats" =>
       /\ FLe(Zero, returned.special_case_rate)
       /\ FLe(returned.special_case_rate, Lit(1, <<100>>, 0))
       /\ solutions_count = 0 => returned.special_case_rate = Zero

C10_Step ==
  /\ solutions_count' >= solutions_count
  /\ special_cases_count' >= special_cases_count
  /\ call' = "get_stats" => UNCHANGED <<solutions_count, special_cases_count>>

\* C10: always 0 <= special_cases_count <= solutions_count, no counter ever
\* decreases, get_stats changes neither, and the rate it reports lies in
\* [0, 100] and is 0 on a fresh solver.
C10_Counters == []C10_Inv /\ [][C10_Step]_vars

\* C10's case: get_stats after two solve calls of which one was counted.
C10_Witness ==
  /\ call = "get_stats"
  /\ solutions_count = 2
  /\ special_cases_count = 1
  /\ returned.special_case_rate = Lit(1, <<50>>, 0)

===========================================================================
